---- MODULE Spec2Model ----
(***************************************************************************)
(* A model of src/src/index.ts: the GitHub repository context server.      *)
(* Three tool handlers (get-repo-context, get-file-content,                *)
(* get-repo-structure) run over a remote content API.  A handler runs      *)
(* synchronously between two awaits of a remote call, so one action of the *)
(* model is one resumption: the answer to the outstanding remote call and  *)
(* everything the handler does until it awaits again or returns.  The      *)
(* await of an inner async function that has returned only touches locals  *)
(* of the awaiting handler and is folded into the same resumption.         *)
(*                                                                         *)
(* A JavaScript string is a sequence of characters, each a one-character   *)
(* string; null is Null and undefined is Undefined.                        *)
(***************************************************************************)
EXTENDS Integers, Sequences, FiniteSets, TLC

\* ------------------------------------------------------------------------
\* Strings

\* The grave accent (code unit 96), which a TLA+ string cannot hold.
Grave == "GRAVE"

\* The printable ASCII characters, in code-unit order from 32 to 126.
Printable ==
  << " ", "!", "\"", "#", "$", "%", "&", "'", "(", ")", "*", "+", ",", "-",
     ".", "/", "0", "1", "2", "3", "4", "5", "6", "7", "8", "9", ":", ";",
     "<", "=", ">", "?", "@", "A", "B", "C", "D", "E", "F", "G", "H", "I",
     "J", "K", "L", "M", "N", "O", "P", "Q", "R", "S", "T", "U", "V", "W",
     "X", "Y", "Z", "[", "\\", "]", "^", "_", Grave, "a", "b", "c", "d", "e",
     "f", "g", "h", "i", "j", "k", "l", "m", "n", "o", "p", "q", "r", "s",
     "t", "u", "v", "w", "x", "y", "z", "{", "|", "}", "~" >>

\* The UTF-16 code unit of a character (line feed is 10).
Code(c) ==
  IF c = "\n" THEN 10
  ELSE 31 + (CHOOSE i \in 1..Len(Printable) : Printable[i] = c)

\* The character of a byte below 128; any other byte decodes to U+FFFD.
Chr(b) ==
  IF b = 10 THEN "\n"
  ELSE IF b >= 32 /\ b <= 126 THEN Printable[b - 31]
  ELSE "\\uFFFD"

Null == << "null" >>
Undefined == << "undefined" >>

\* String.prototype.startsWith in the place of includes.
StartsWith(s, sub) == Len(sub) <= Len(s) /\ SubSeq(s, 1, Len(sub)) = sub

\* String.prototype.includes: sub occurs in s at some offset.
Includes(s, sub) ==
  \E i \in 0..(Len(s) - Len(sub)) : SubSeq(s, i + 1, i + Len(sub)) = sub

\* Array.prototype.includes and Array.prototype.some over a sequence.
ArrayIncludes(arr, x) == \E i \in 1..Len(arr) : arr[i] = x

\* String.prototype.split on a one-character separator.
RECURSIVE SplitFrom(_, _, _, _)
SplitFrom(s, sep, i, cur) ==
  IF i > Len(s) THEN << cur >>
  ELSE IF s[i] = sep THEN << cur >> \o SplitFrom(s, sep, i + 1, << >>)
  ELSE SplitFrom(s, sep, i + 1, Append(cur, s[i]))

Split(s, sep) == SplitFrom(s, sep, 1, << >>)

\* Array.prototype.pop on a non-empty array: its last element.
Pop(arr) == arr[Len(arr)]

\* x || "" : the empty string stands in for a falsy left operand.
OrEmpty(x) == IF x = Undefined \/ x = Null \/ x = << >> THEN << >> ELSE x

\* Array.prototype.join.
RECURSIVE Join(_, _)
Join(arr, sep) ==
  IF Len(arr) = 0 THEN << >>
  ELSE IF Len(arr) = 1 THEN arr[1]
  ELSE arr[1] \o sep \o Join(Tail(arr), sep)

\* Array.prototype.slice(0, end) for an integer end, negative ends counted
\* from the back.
Slice0(arr, end) ==
  LET n == Len(arr)
      e == IF end < 0 THEN (IF n + end < 0 THEN 0 ELSE n + end)
           ELSE (IF end > n THEN n ELSE end)
  IN  SubSeq(arr, 1, e)

\* The default comparison of Array.prototype.sort: strings by code units.
RECURSIVE StrLess(_, _)
StrLess(a, b) ==
  IF b = << >> THEN FALSE
  ELSE IF a = << >> THEN TRUE
  ELSE IF Code(a[1]) # Code(b[1]) THEN Code(a[1]) < Code(b[1])
  ELSE StrLess(Tail(a), Tail(b))

\* Array.prototype.sort with the default comparison (a stable insertion).
RECURSIVE Insert(_, _)
Insert(sorted, x) ==
  IF sorted = << >> THEN << x >>
  ELSE IF StrLess(x, Head(sorted)) THEN << x >> \o sorted
  ELSE << Head(sorted) >> \o Insert(Tail(sorted), x)

RECURSIVE Sort(_)
Sort(arr) ==
  IF arr = << >> THEN << >>
  ELSE Insert(Sort(SubSeq(arr, 1, Len(arr) - 1)), arr[Len(arr)])

\* ------------------------------------------------------------------------
\* Buffer.from(content, 'base64').toString('utf-8')

Base64Alphabet ==
  << "A", "B", "C", "D", "E", "F", "G", "H", "I", "J", "K", "L", "M", "N",
     "O", "P", "Q", "R", "S", "T", "U", "V", "W", "X", "Y", "Z", "a", "b",
     "c", "d", "e", "f", "g", "h", "i", "j", "k", "l", "m", "n", "o", "p",
     "q", "r", "s", "t", "u", "v", "w", "x", "y", "z", "0", "1", "2", "3",
     "4", "5", "6", "7", "8", "9", "+", "/" >>

IsBase64Char(c) == \E i \in 1..Len(Base64Alphabet) : Base64Alphabet[i] = c

Base64Value(c) ==
  (CHOOSE i \in 1..Len(Base64Alphabet) : Base64Alphabet[i] = c) - 1

\* The sextets of the input: decoding stops at the first "=", and a
\* character outside the alphabet (a line break) is skipped.
RECURSIVE Sextets(_)
Sextets(s) ==
  IF s = << >> \/ Head(s) = "=" THEN << >>
  ELSE IF IsBase64Char(Head(s))
       THEN << Base64Value(Head(s)) >> \o Sextets(Tail(s))
       ELSE Sextets(Tail(s))

\* Four sextets make three bytes; a trailing group of three makes two, of
\* two makes one, and a lone sextet makes none.
RECURSIVE SextetsToBytes(_)
SextetsToBytes(v) ==
  IF Len(v) < 2 THEN << >>
  ELSE LET b1 == (v[1] * 4 + (v[2] \div 16)) % 256
       IN  IF Len(v) = 2 THEN << b1 >>
           ELSE LET b2 == ((v[2] % 16) * 16 + (v[3] \div 4)) % 256
                IN  IF Len(v) = 3 THEN << b1, b2 >>
                    ELSE << b1, b2, ((v[3] % 4) * 64 + v[4]) % 256 >>
                         \o SextetsToBytes(SubSeq(v, 5, Len(v)))

Base64ToUtf8(s) ==
  LET bytes == SextetsToBytes(Sextets(s))
  IN  [i \in 1..Len(bytes) |-> Chr(bytes[i])]

\* ------------------------------------------------------------------------
\* The remote repository: what octokit.repos.getContent answers

\* A repository tree: one record per directory, with its listing in the
\* order the remote returns it.  The root directory has the empty path.
\* README.md, node_modules/c.js, src/a.ts and src/b.js.
TreeScenario ==
  <<
  [dir |-> <<>>,
   entries |-> <<
         [path |-> <<"R", "E", "A", "D", "M", "E", ".", "m", "d">>, type |-> "file"],
         [path |-> <<"n", "o", "d", "e", "_", "m", "o", "d", "u", "l", "e", "s">>, type |-> "dir"],
         [path |-> <<"s", "r", "c">>, type |-> "dir"] >>],
  [dir |-> <<"n", "o", "d", "e", "_", "m", "o", "d", "u", "l", "e", "s">>,
   entries |-> <<
         [path |-> <<"n", "o", "d", "e", "_", "m", "o", "d", "u", "l", "e", "s", "/", "c", ".", "j", "s">>, type |-> "file"] >>],
  [dir |-> <<"s", "r", "c">>,
   entries |-> <<
         [path |-> <<"s", "r", "c", "/", "a", ".", "t", "s">>, type |-> "file"],
         [path |-> <<"s", "r", "c", "/", "b", ".", "j", "s">>, type |-> "file"] >>]
  >>

\* A directory in a directory, a dotted directory name, names without a dot.
TreeNested ==
  <<
  [dir |-> <<>>,
   entries |-> <<
         [path |-> <<"a">>, type |-> "dir"],
         [path |-> <<"a", ".", "m", "d">>, type |-> "file"],
         [path |-> <<"M", "a", "k", "e", "f", "i", "l", "e">>, type |-> "file"] >>],
  [dir |-> <<"a">>,
   entries |-> <<
         [path |-> <<"a", "/", "v", "1", ".", "0">>, type |-> "dir"],
         [path |-> <<"a", "/", "z", ".", "t", "s">>, type |-> "file"] >>],
  [dir |-> <<"a", "/", "v", "1", ".", "0">>,
   entries |-> <<
         [path |-> <<"a", "/", "v", "1", ".", "0", "/", "L", "I", "C", "E", "N", "S", "E">>, type |-> "file"] >>]
  >>

\* An empty directory, an entry that is neither file nor directory, names
\* that hold a default exclude path, and a file that sorts before the files
\* of the directory listed before it.
TreeMixed ==
  <<
  [dir |-> <<>>,
   entries |-> <<
         [path |-> <<"b", "u", "i", "l", "d", ".", "m", "d">>, type |-> "file"],
         [path |-> <<"d", "i", "s", "t">>, type |-> "dir"],
         [path |-> <<"d", "i", "s", "t", ".", "m", "d">>, type |-> "file"],
         [path |-> <<"d", "o", "c", "s">>, type |-> "dir"],
         [path |-> <<"l", "i", "b">>, type |-> "symlink"],
         [path |-> <<"m", "d">>, type |-> "file"] >>],
  [dir |-> <<"d", "i", "s", "t">>,
   entries |-> <<
         [path |-> <<"d", "i", "s", "t", "/", "o", ".", "j", "s">>, type |-> "file"] >>],
  [dir |-> <<"d", "o", "c", "s">>, entries |-> << >>]
  >>

Trees == { TreeScenario, TreeNested, TreeMixed }

DirsOf(tree) == { tree[i].dir : i \in 1..Len(tree) }

ListingOf(tree, path) ==
  tree[CHOOSE i \in 1..Len(tree) : tree[i].dir = path].entries

EntriesOf(tree) ==
  UNION { { tree[i].entries[j] : j \in 1..Len(tree[i].entries) } :
          i \in 1..Len(tree) }

FilesOf(tree) == { e.path : e \in { x \in EntriesOf(tree) : x.type = "file" } }

PathsOf(tree) == DirsOf(tree) \cup { e.path : e \in EntriesOf(tree) }

\* "hi" in base64, with the line break the remote ends a content blob with.
Base64Hi == << "a", "G", "k", "=", "\n" >>

\* The answer of octokit.repos.getContent for a path: a failure (the call
\* throws), an array (a directory listing) or an object (one entry).
ErrorResponse ==
  [status |-> "error", isArray |-> FALSE, items |-> << >>, type |-> "",
   path |-> << >>, hasContent |-> FALSE, encoding |-> "", content |-> << >>]

ArrayResponse(items) ==
  [status |-> "ok", isArray |-> TRUE, items |-> items, type |-> "",
   path |-> << >>, hasContent |-> FALSE, encoding |-> "", content |-> << >>]

ObjectResponse(type, path, hasContent, encoding, content) ==
  [status |-> "ok", isArray |-> FALSE, items |-> << >>, type |-> type,
   path |-> path, hasContent |-> hasContent, encoding |-> encoding,
   content |-> content]

\* rem.failing: the paths whose call fails; rem.empty: the files of no
\* bytes; rem.unencoded: the files the remote sends with encoding "none".
RemoteGetContent(rem, path) ==
  IF path \in rem.failing \/ path \notin PathsOf(rem.tree) THEN ErrorResponse
  ELSE IF path \in DirsOf(rem.tree)
       THEN ArrayResponse(ListingOf(rem.tree, path))
  ELSE IF path \in FilesOf(rem.tree)
       THEN IF path \in rem.unencoded
            THEN ObjectResponse("file", path, TRUE, "none", << >>)
            ELSE IF path \in rem.empty
                 THEN ObjectResponse("file", path, TRUE, "base64", << >>)
                 ELSE ObjectResponse("file", path, TRUE, "base64", Base64Hi)
  ELSE ObjectResponse(
         (CHOOSE e \in EntriesOf(rem.tree) : e.path = path).type,
         path, FALSE, "", << >>)

\* ------------------------------------------------------------------------
\* getRepoContents, getFileContent (after the await of the remote call)

\* How a call completes: it returns a value, or it throws an error.
Normal(value) ==
  [threw |-> FALSE, value |-> value,
   error |-> [isError |-> FALSE, message |-> << >>, string |-> << >>]]

Abrupt(error) == [threw |-> TRUE, value |-> << >>, error |-> error]

\* The error octokit throws for a failed call.
RequestError ==
  [isError |-> TRUE, message |-> <<"N", "o", "t", " ", "F", "o", "u", "n", "d">>,
   string |-> <<"H", "t", "t", "p", "E", "r", "r", "o", "r", ":", " ", "N", "o", "t", " ", "F", "o", "u", "n", "d">>]

\* getRepoContents without its try and catch: the failure of the call is
\* thrown on to the caller.
getRepoContentsNoCatch(response) ==
  IF response.status = "error" THEN Abrupt(RequestError)
  ELSE IF response.isArray THEN Normal(response.items)
  ELSE IF response.type # ""
       THEN Normal(<< [path |-> response.path, type |-> response.type] >>)
  ELSE Normal(<< >>)

getRepoContents(response) ==
  IF response.status = "error" THEN Normal(<< >>)
  ELSE IF response.isArray THEN Normal(response.items)
  ELSE IF response.type # ""
       THEN Normal(<< [path |-> response.path, type |-> response.type] >>)
  ELSE Normal(<< >>)

getFileContent(response) ==
  IF response.status = "error" THEN Normal(Null)
  ELSE IF response.hasContent /\ response.encoding # ""
          /\ response.encoding = "base64"
       THEN Normal(Base64ToUtf8(response.content))
  ELSE Normal(Null)

\* ------------------------------------------------------------------------
\* getAllFiles

\* allFiles.push({ path: item.path, type: 'file' })
PushFile(allFiles, item) ==
  Append(allFiles, [path |-> item.path, type |-> "file"])

\* allFiles = [...subFiles, ...allFiles]
ConcatFront(allFiles, subFiles) == subFiles \o allFiles

\* allFiles = [...allFiles, ...subFiles]
Concat(allFiles, subFiles) == allFiles \o subFiles

\* One activation of getAllFiles: its path, the listing it iterates, the
\* position of the loop in it and its accumulator.  A new activation awaits
\* its listing.
NewFrame(path) ==
  [path |-> path, contents |-> << >>, i |-> 1, allFiles |-> << >>]

ReplaceTop(stack, frame) == SubSeq(stack, 1, Len(stack) - 1) \o << frame >>

\* The walk from the activation on top of the stack until it awaits the
\* listing of a subdirectory (done = FALSE, the call for path is issued and
\* the new activation is on top) or the outermost activation returns
\* (done = TRUE, with its allFiles).
RECURSIVE RunWalk(_)
RunWalk(stack) ==
  LET top == stack[Len(stack)]
  IN  IF top.i > Len(top.contents)
      THEN IF Len(stack) = 1
           THEN [done |-> TRUE, stack |-> << >>, allFiles |-> top.allFiles,
                 path |-> << >>]
           ELSE LET caller == stack[Len(stack) - 1]
                    resumed ==
                      [caller EXCEPT !.allFiles = Concat(@, top.allFiles),
                                     !.i = @ + 1]
                IN  RunWalk(SubSeq(stack, 1, Len(stack) - 2) \o << resumed >>)
      ELSE LET item == top.contents[top.i]
           IN  IF item.type = "file"
               THEN RunWalk(ReplaceTop(stack,
                      [top EXCEPT !.allFiles = PushFile(@, item),
                                  !.i = @ + 1]))
               ELSE IF item.type = "dir"
               THEN [done |-> FALSE,
                     stack |-> Append(stack, NewFrame(item.path)),
                     allFiles |-> << >>, path |-> item.path]
               ELSE RunWalk(ReplaceTop(stack, [top EXCEPT !.i = @ + 1]))

\* getAllFiles with every await answered at once, as when nothing else runs:
\* the loop over contents from item i on, with the accumulator so far.
RECURSIVE getAllFilesFrom(_, _, _, _)
getAllFilesFrom(rem, contents, i, allFiles) ==
  IF i > Len(contents) THEN allFiles
  ELSE LET item == contents[i]
       IN  IF item.type = "file"
           THEN getAllFilesFrom(rem, contents, i + 1,
                                PushFile(allFiles, item))
           ELSE IF item.type = "dir"
           THEN getAllFilesFrom(rem, contents, i + 1,
                  Concat(allFiles,
                    getAllFilesFrom(rem,
                      getRepoContents(RemoteGetContent(rem, item.path)).value,
                      1, << >>)))
           ELSE getAllFilesFrom(rem, contents, i + 1, allFiles)

getAllFiles(rem, path) ==
  getAllFilesFrom(rem, getRepoContents(RemoteGetContent(rem, path)).value,
                  1, << >>)

\* ------------------------------------------------------------------------
\* The tool handlers

S_md == <<"m", "d">>
S_ts == <<"t", "s">>
S_node_modules == <<"n", "o", "d", "e", "_", "m", "o", "d", "u", "l", "e", "s">>
S_dist == <<"d", "i", "s", "t">>
S_build == <<"b", "u", "i", "l", "d">>
S_owner == <<"o">>
S_repo == <<"r">>
S_nope == <<"n", "o", "p", "e">>

\* The defaults of the get-repo-context parameters.
DefaultMaxFiles == 50
DefaultFileExtensions == << >>
DefaultExcludePaths == << S_node_modules, S_dist, S_build >>

\* A destructuring default: it applies when the argument is not given.
Default(args, name, value, default) ==
  IF name \in args.given THEN value ELSE default

maxFilesOf(args) == Default(args, "maxFiles", args.maxFiles, DefaultMaxFiles)

fileExtensionsOf(args) ==
  Default(args, "fileExtensions", args.fileExtensions, DefaultFileExtensions)

excludePathsOf(args) ==
  Default(args, "excludePaths", args.excludePaths, DefaultExcludePaths)

\* excludePaths.some(excludePath => file.path.includes(excludePath))
Excluded(path, excludePaths) ==
  \E i \in 1..Len(excludePaths) : Includes(path, excludePaths[i])

\* file.path.split('.').pop() || ''
ExtensionOf(path) == OrEmpty(Pop(Split(path, ".")))

\* The callback of allFiles.filter.
KeepFile(file, fileExtensions, excludePaths) ==
  IF Excluded(file.path, excludePaths) THEN FALSE
  ELSE IF Len(fileExtensions) > 0
       THEN ArrayIncludes(fileExtensions, ExtensionOf(file.path))
  ELSE TRUE

RECURSIVE FilterFiles(_, _, _)
FilterFiles(files, fileExtensions, excludePaths) ==
  IF files = << >> THEN << >>
  ELSE (IF KeepFile(Head(files), fileExtensions, excludePaths)
        THEN << Head(files) >> ELSE << >>)
       \o FilterFiles(Tail(files), fileExtensions, excludePaths)

\* The truncation before the filters.
SelectFilesSliceFirst(allFiles, args) ==
  FilterFiles(Slice0(allFiles, maxFilesOf(args)), fileExtensionsOf(args),
              excludePathsOf(args))

\* filteredFiles, after allFiles.filter(...) and .slice(0, maxFiles).
SelectFiles(allFiles, args) ==
  Slice0(FilterFiles(allFiles, fileExtensionsOf(args), excludePathsOf(args)),
         maxFilesOf(args))

\* The content calls of a loop that fetches the files together.
ContentCallsAtOnce(filteredFiles, k) ==
  [i \in 1..(Len(filteredFiles) - k + 1) |-> filteredFiles[k + i - 1].path]

\* The content calls the fetch loop issues when it stands at position k of
\* filteredFiles: one, for the file at k, which it then awaits.
ContentCalls(filteredFiles, k) ==
  IF k <= Len(filteredFiles) THEN << filteredFiles[k].path >> ELSE << >>

T_File == <<"F", "i", "l", "e", ":", " ">>
T_FenceOpen == <<"\n", "\n", Grave, Grave, Grave, "\n">>
T_FenceCloseBlock == <<"\n", Grave, Grave, Grave, "\n", "\n">>
T_FenceClose == <<"\n", Grave, Grave, Grave>>
T_Separator == <<"-", "-", "-", "\n", "\n">>
T_Context == <<"R", "e", "p", "o", "s", "i", "t", "o", "r", "y", " ", "C", "o", "n", "t", "e", "x", "t", " ", "f", "o", "r", " ">>
T_Structure == <<"R", "e", "p", "o", "s", "i", "t", "o", "r", "y", " ", "S", "t", "r", "u", "c", "t", "u", "r", "e", " ", "f", "o", "r", " ">>
T_Colon == <<":", "\n", "\n">>
T_CouldNot == <<"C", "o", "u", "l", "d", " ", "n", "o", "t", " ", "r", "e", "t", "r", "i", "e", "v", "e", " ", "c", "o", "n", "t", "e", "n", "t", " ", "f", "o", "r", " ">>
T_In == <<" ", "i", "n", " ">>
T_ContextError == <<"E", "r", "r", "o", "r", " ", "f", "e", "t", "c", "h", "i", "n", "g", " ", "r", "e", "p", "o", "s", "i", "t", "o", "r", "y", " ", "c", "o", "n", "t", "e", "x", "t", ":", " ">>
T_FileError == <<"E", "r", "r", "o", "r", " ", "f", "e", "t", "c", "h", "i", "n", "g", " ", "f", "i", "l", "e", " ", "c", "o", "n", "t", "e", "n", "t", ":", " ">>
T_StructureError == <<"E", "r", "r", "o", "r", " ", "f", "e", "t", "c", "h", "i", "n", "g", " ", "r", "e", "p", "o", "s", "i", "t", "o", "r", "y", " ", "s", "t", "r", "u", "c", "t", "u", "r", "e", ":", " ">>

\* fileContents.filter(file => file.content !== null)
RECURSIVE NonNull(_)
NonNull(fileContents) ==
  IF fileContents = << >> THEN << >>
  ELSE (IF Head(fileContents).content # Null
        THEN << Head(fileContents) >> ELSE << >>)
       \o NonNull(Tail(fileContents))

FileBlock(file) ==
  T_File \o file.path \o T_FenceOpen \o file.content \o T_FenceCloseBlock

formattedContent(fileContents) ==
  LET kept == NonNull(fileContents)
  IN  Join([i \in 1..Len(kept) |-> FileBlock(kept[i])], T_Separator)

\* What a handler hands back: a returned text payload, or a raised error.
Returned(text) == [outcome |-> "return", type |-> "text", text |-> text]
Raised(message) == [outcome |-> "throw", type |-> "", text |-> message]
NoResult == [outcome |-> "none", type |-> "", text |-> << >>]

ContextPayload(args, fileContents) ==
  Returned(T_Context \o args.owner \o << "/" >> \o args.repo \o T_Colon
           \o formattedContent(fileContents))

\* allFiles.map(file => file.path).join('\n'), without the sort.
fileStructureUnsorted(allFiles) ==
  Join([i \in 1..Len(allFiles) |-> allFiles[i].path], << "\n" >>)

\* allFiles.map(file => file.path).sort().join('\n')
fileStructure(allFiles) ==
  Join(Sort([i \in 1..Len(allFiles) |-> allFiles[i].path]), << "\n" >>)

StructurePayload(args, allFiles) ==
  Returned(T_Structure \o args.owner \o << "/" >> \o args.repo \o T_Colon
           \o fileStructure(allFiles))

\* !content
Not(content) == content = Null \/ content = << >>

FileContentPayload(args, content) ==
  IF Not(content)
  THEN Returned(T_CouldNot \o args.path \o T_In \o args.owner \o << "/" >>
                \o args.repo)
  ELSE Returned(T_File \o args.path \o T_FenceOpen \o content
                \o T_FenceClose)

\* error instanceof Error ? error.message : String(error)
ErrorText(error) == IF error.isError THEN error.message ELSE error.string

ErrorPrefix(tool) ==
  IF tool = "get-repo-context" THEN T_ContextError
  ELSE IF tool = "get-file-content" THEN T_FileError
  ELSE T_StructureError

\* A catch block that throws the error on.
CatchRethrow(tool, error) == Raised(ErrorText(error))

\* The catch block of a handler.
Catch(tool, error) == Returned(ErrorPrefix(tool) \o ErrorText(error))

\* ------------------------------------------------------------------------
\* Bounds and inputs

\* The requests in flight at once.
NumRequests == 2
\* The largest maxFiles a caller passes explicitly.
MaxFiles == 3
\* The paths of a repository that are out of the ordinary at once: a path
\* whose call fails, an empty file, a file sent unencoded.
MaxAnomalies == 1

Requests == 1..NumRequests

AnomaliesOf(tree) ==
  { [kind |-> "failing", path |-> p] : p \in DirsOf(tree) \cup FilesOf(tree) }
  \cup { [kind |-> k, path |-> p] :
         k \in { "empty", "unencoded" }, p \in FilesOf(tree) }

RemoteWith(tree, anomalies) ==
  [tree |-> tree,
   failing |-> { a.path : a \in { x \in anomalies : x.kind = "failing" } },
   empty |-> { a.path : a \in { x \in anomalies : x.kind = "empty" } },
   unencoded |->
     { a.path : a \in { x \in anomalies : x.kind = "unencoded" } }]

Remotes ==
  UNION { { RemoteWith(t, A) :
            A \in { X \in SUBSET AnomaliesOf(t) :
                    Cardinality(X) <= MaxAnomalies } } : t \in Trees }

MaxFilesChoices ==
  { [given |-> FALSE, value |-> 0] }
  \cup { [given |-> TRUE, value |-> n] : n \in (-1)..MaxFiles }

FileExtensionsChoices ==
  { [given |-> FALSE, value |-> << >>],
    [given |-> TRUE, value |-> << S_md >>],
    [given |-> TRUE, value |-> << S_ts, S_md >>] }

ExcludePathsChoices ==
  { [given |-> FALSE, value |-> << >>],
    [given |-> TRUE, value |-> << >>],
    [given |-> TRUE, value |-> << S_md >>] }

Args(path, m, e, x) ==
  [owner |-> S_owner, repo |-> S_repo, path |-> path,
   given |-> (IF m.given THEN { "maxFiles" } ELSE { })
             \cup (IF e.given THEN { "fileExtensions" } ELSE { })
             \cup (IF x.given THEN { "excludePaths" } ELSE { }),
   maxFiles |-> m.value, fileExtensions |-> e.value,
   excludePaths |-> x.value]

NoArgs ==
  Args(<< >>, [given |-> FALSE, value |-> 0],
       [given |-> FALSE, value |-> << >>],
       [given |-> FALSE, value |-> << >>])

ContextArgs ==
  { Args(<< >>, m, e, x) : m \in MaxFilesChoices,
                           e \in FileExtensionsChoices,
                           x \in ExcludePathsChoices }

FileArgs(tree) ==
  { [NoArgs EXCEPT !.path = p] : p \in PathsOf(tree) \cup { S_nope } }

\* ------------------------------------------------------------------------
\* State

VARIABLES
  remote,        \* the repository the remote API serves
  req,           \* per request: where its handler stands, and its locals
  fileContents,  \* the fileContents accumulators of the handlers
  pending,       \* the remote calls issued and not yet answered
  log            \* per request: the remote calls it issued, in order

vars == << remote, req, fileContents, pending, log >>

\* One accumulator for all requests, as a module-level fileContents would be.
ScopeShared(r) == 1

\* The accumulator a request's handler pushes to: fileContents is declared
\* in the handler's body, so each invocation has its own.
Scope(r) == r

IdleReq ==
  [pc |-> "idle", tool |-> "", args |-> NoArgs, stack |-> << >>,
   walked |-> FALSE, allFiles |-> << >>, filteredFiles |-> << >>, k |-> 0,
   result |-> NoResult, overlapped |-> FALSE]

InitWith(remotes) ==
  /\ remote \in remotes
  /\ req = [r \in Requests |-> IdleReq]
  /\ fileContents = [r \in Requests |-> << >>]
  /\ pending = { }
  /\ log = [r \in Requests |-> << >>]

Init == InitWith(Remotes)

Call(r, op, path) == [req |-> r, op |-> op, path |-> path]

CallsOf(r) == { c \in pending : c.req = r }

InFlight(r) == req[r].pc \in { "walk", "fetch", "single" }

\* History: the request as it resumes, marked when another request is in
\* flight at that moment.
Resumed(r) ==
  [req[r] EXCEPT !.overlapped = @ \/ \E q \in Requests \ { r } : InFlight(q)]

\* ------------------------------------------------------------------------
\* Actions: a handler from its call to its first await, and each resumption

Issue(r, op, paths) ==
  /\ pending' = pending \cup { Call(r, op, paths[i]) : i \in 1..Len(paths) }
  /\ log' = [log EXCEPT ![r] =
               @ \o [i \in 1..Len(paths) |-> [op |-> op, path |-> paths[i]]]]

\* The handler returns (or its catch block does): nothing is awaited.
Finish(r, rq, result) ==
  req' = [req EXCEPT ![r] = [rq EXCEPT !.pc = "done", !.result = result]]

\* if (file.type === 'file'): the loop passes over any other entry.
RECURSIVE NextFile(_, _)
NextFile(filteredFiles, k) ==
  IF k > Len(filteredFiles) \/ filteredFiles[k].type = "file" THEN k
  ELSE NextFile(filteredFiles, k + 1)

\* The fetch loop of get-repo-context from position k, with the accumulators
\* as fc and the answered call, if any, taken out of the calls in flight:
\* it issues the next content call and awaits it, or renders and returns.
FetchFrom(r, rq, fc, k, answered) ==
  LET at == NextFile(rq.filteredFiles, k)
      calls == ContentCalls(rq.filteredFiles, at)
  IN  /\ fileContents' = fc
      /\ IF calls = << >>
         THEN /\ Finish(r, [rq EXCEPT !.k = at],
                        ContextPayload(rq.args, fc[Scope(r)]))
              /\ pending' = pending \ answered
              /\ UNCHANGED log
         ELSE /\ req' = [req EXCEPT ![r] = [rq EXCEPT !.pc = "fetch",
                                                      !.k = at]]
              /\ pending' = (pending \ answered)
                   \cup { Call(r, "content", calls[i]) : i \in 1..Len(calls) }
              /\ log' = [log EXCEPT ![r] =
                   @ \o [i \in 1..Len(calls) |->
                           [op |-> "content", path |-> calls[i]]]]

\* get-repo-context and get-repo-structure, up to the await of the root
\* listing in getAllFiles(owner, repo).
StartWalk(r, tool, args) ==
  /\ req[r].pc = "idle"
  /\ req' = [req EXCEPT ![r] =
       [IdleReq EXCEPT !.pc = "walk", !.tool = tool, !.args = args,
                       !.stack = << NewFrame(<< >>) >>]]
  /\ Issue(r, "list", << << >> >>)
  /\ UNCHANGED << remote, fileContents >>

GetRepoContext(r, args) == StartWalk(r, "get-repo-context", args)

GetRepoStructure(r) == StartWalk(r, "get-repo-structure", NoArgs)

\* get-file-content, up to the await in getFileContent.
GetFileContent(r, args) ==
  /\ req[r].pc = "idle"
  /\ req' = [req EXCEPT ![r] =
       [IdleReq EXCEPT !.pc = "single", !.tool = "get-file-content",
                       !.args = args]]
  /\ Issue(r, "content", << args.path >>)
  /\ UNCHANGED << remote, fileContents >>

\* A listing call of the walk is answered: getRepoContents returns, the
\* awaiting getAllFiles runs on, and when the outermost one returns the
\* handler goes on to filter and fetch (get-repo-context) or to sort and
\* return (get-repo-structure).
ResumeWalk(r) ==
  /\ req[r].pc = "walk"
  /\ \E c \in CallsOf(r) :
       /\ c.op = "list"
       /\ LET rq == Resumed(r)
              completion == getRepoContents(RemoteGetContent(remote, c.path))
          IN  IF completion.threw
              THEN /\ Finish(r, rq, Catch(rq.tool, completion.error))
                   /\ pending' = pending \ { c }
                   /\ UNCHANGED << fileContents, log >>
              ELSE LET top == rq.stack[Len(rq.stack)]
                       w == RunWalk(ReplaceTop(rq.stack,
                              [top EXCEPT !.contents = completion.value]))
                   IN  IF ~ w.done
                       THEN /\ req' = [req EXCEPT ![r] =
                                         [rq EXCEPT !.stack = w.stack]]
                            /\ pending' = (pending \ { c })
                                 \cup { Call(r, "list", w.path) }
                            /\ log' = [log EXCEPT ![r] =
                                 Append(@, [op |-> "list", path |-> w.path])]
                            /\ UNCHANGED fileContents
                       ELSE LET walked ==
                                  [rq EXCEPT !.stack = << >>,
                                             !.walked = TRUE,
                                             !.allFiles = w.allFiles]
                            IN  IF rq.tool = "get-repo-structure"
                                THEN /\ Finish(r, walked,
                                          StructurePayload(rq.args,
                                                           w.allFiles))
                                     /\ pending' = pending \ { c }
                                     /\ UNCHANGED << fileContents, log >>
                                ELSE FetchFrom(r,
                                       [walked EXCEPT !.filteredFiles =
                                          SelectFiles(w.allFiles, rq.args)],
                                       [fileContents EXCEPT
                                          ![Scope(r)] = << >>],
                                       1, { c })
  /\ UNCHANGED remote

\* A content call of the fetch loop is answered: the record is pushed and
\* the loop goes on.
ResumeFetch(r) ==
  /\ req[r].pc = "fetch"
  /\ \E c \in CallsOf(r) :
       /\ c.op = "content"
       /\ LET rq == Resumed(r)
              completion == getFileContent(RemoteGetContent(remote, c.path))
          IN  IF completion.threw
              THEN /\ Finish(r, rq, Catch(rq.tool, completion.error))
                   /\ pending' = pending \ { c }
                   /\ UNCHANGED << fileContents, log >>
              ELSE FetchFrom(r, rq,
                     [fileContents EXCEPT ![Scope(r)] =
                        Append(@, [path |-> rq.filteredFiles[rq.k].path,
                                   content |-> completion.value])],
                     rq.k + 1, { c })
  /\ UNCHANGED remote

\* The content call of get-file-content is answered.
ResumeFileContent(r) ==
  /\ req[r].pc = "single"
  /\ \E c \in CallsOf(r) :
       /\ c.op = "content"
       /\ LET rq == Resumed(r)
              completion == getFileContent(RemoteGetContent(remote, c.path))
          IN  Finish(r, rq,
                IF completion.threw THEN Catch(rq.tool, completion.error)
                ELSE FileContentPayload(rq.args, completion.value))
       /\ pending' = pending \ { c }
  /\ UNCHANGED << remote, fileContents, log >>

\* An exception nothing in the pipeline expects (a RangeError, a TypeError)
\* is raised as the handler runs on after an answer; the handler is inside
\* its try block from its first statement to its return.
UnexpectedErrors ==
  { [isError |-> TRUE, message |-> << "E" >>, string |-> << "E" >>],
    [isError |-> FALSE, message |-> << >>, string |-> << "x" >>] }

Throw(r, error) ==
  /\ InFlight(r)
  /\ \E c \in CallsOf(r) :
       /\ Finish(r, Resumed(r), Catch(req[r].tool, error))
       /\ pending' = pending \ { c }
  /\ UNCHANGED << remote, fileContents, log >>

Step(r) ==
  \/ \E args \in ContextArgs : GetRepoContext(r, args)
  \/ \E args \in FileArgs(remote.tree) : GetFileContent(r, args)
  \/ GetRepoStructure(r)
  \/ ResumeWalk(r)
  \/ ResumeFetch(r)
  \/ ResumeFileContent(r)

\* One request at a time.
Next == Step(1)

Spec == Init /\ [][Next]_vars

\* One request, with unexpected exceptions.
NextFault == Step(1) \/ \E error \in UnexpectedErrors : Throw(1, error)

SpecFault == Init /\ [][NextFault]_vars

\* Requests in flight together: their resumptions interleave at the awaits.
ConcRemotes ==
  { RemoteWith(TreeScenario, { }),
    RemoteWith(TreeNested,
               { [kind |-> "failing", path |-> TreeNested[3].dir],
                 [kind |-> "empty", path |-> TreeNested[1].entries[2].path] }) }

ConcContextArgs ==
  { NoArgs,
    Args(<< >>, [given |-> TRUE, value |-> 1],
         [given |-> TRUE, value |-> << S_ts, S_md >>],
         [given |-> TRUE, value |-> << >>]) }

ConcFileArgs(tree) ==
  { [NoArgs EXCEPT !.path = tree[1].entries[2].path] }

ConcStep(r) ==
  \/ \E args \in ConcContextArgs : GetRepoContext(r, args)
  \/ \E args \in ConcFileArgs(remote.tree) : GetFileContent(r, args)
  \/ GetRepoStructure(r)
  \/ ResumeWalk(r)
  \/ ResumeFetch(r)
  \/ ResumeFileContent(r)

InitConc == InitWith(ConcRemotes)

NextConc == \E r \in Requests : ConcStep(r)

SpecConc == InitConc /\ [][NextConc]_vars

\* ------------------------------------------------------------------------
\* The walk, stated without the walker

\* The directories the walk lists, from the root down: the root, and every
\* directory entry of a listed directory whose listing did not fail.
RECURSIVE ListedDirs(_, _, _)
ListedDirs(tree, failing, S) ==
  LET open == { i \in 1..Len(tree) : tree[i].dir \in S \ failing }
      below == UNION { { tree[i].entries[j].path :
                         j \in { n \in 1..Len(tree[i].entries) :
                                 tree[i].entries[n].type = "dir" } } :
                       i \in open }
  IN  IF below \subseteq S THEN S ELSE ListedDirs(tree, failing, S \cup below)

\* The file entries of the listings that were answered.
ReachableFiles(tree, failing) ==
  LET open == { i \in 1..Len(tree) :
                tree[i].dir \in ListedDirs(tree, failing, { << >> }) \ failing }
  IN  UNION { { tree[i].entries[j].path :
                j \in { n \in 1..Len(tree[i].entries) :
                        tree[i].entries[n].type = "file" } } : i \in open }

\* The position of a path in the tree: the listing indices from the root
\* down to its entry.
RECURSIVE Position(_, _)
Position(tree, path) ==
  IF path = << >> THEN << >>
  ELSE LET i == CHOOSE n \in 1..Len(tree) :
                  \E j \in 1..Len(tree[n].entries) :
                    tree[n].entries[j].path = path
           j == CHOOSE n \in 1..Len(tree[i].entries) :
                  tree[i].entries[n].path = path
       IN  Append(Position(tree, tree[i].dir), j)

\* u comes before v in depth-first pre-order: they part at some level, and
\* u takes the earlier entry there.
Precedes(u, v) ==
  \E k \in 1..Len(u) :
    /\ k <= Len(v)
    /\ SubSeq(u, 1, k - 1) = SubSeq(v, 1, k - 1)
    /\ u[k] < v[k]

PathsIn(files) == { files[i].path : i \in 1..Len(files) }

IsPreOrderWalk(allFiles, tree, failing) ==
  /\ \A i \in 1..Len(allFiles) :
       allFiles[i].type = "file" /\ allFiles[i].path \notin DirsOf(tree)
  /\ PathsIn(allFiles) = ReachableFiles(tree, failing)
  /\ Len(allFiles) = Cardinality(ReachableFiles(tree, failing))
  /\ \A i, j \in 1..Len(allFiles) :
       i < j => Precedes(Position(tree, allFiles[i].path),
                         Position(tree, allFiles[j].path))

FailingSubdirs == (remote.failing \cap DirsOf(remote.tree)) \ { << >> }

Walks(r) == req[r].tool \in { "get-repo-context", "get-repo-structure" }

\* C1: when every listing call succeeds, the walk from the root returns
\* exactly the file paths reachable from the root, each once, no directory
\* path, in depth-first pre-order (listing order, a directory's files at the
\* directory's position).
C1_WalkIsPreOrder ==
  \A r \in Requests :
    (req[r].walked /\ remote.failing \cap DirsOf(remote.tree) = { })
      => IsPreOrderWalk(req[r].allFiles, remote.tree, { })

\* A finished walk of the nested tree: files of two levels of directories
\* come before the files listed after their directory.
C1_Witness ==
  /\ req[1].walked
  /\ remote.tree = TreeNested
  /\ remote.failing = { }
  /\ Len(req[1].allFiles) = 4
  /\ req[1].allFiles[1].path = TreeNested[3].entries[1].path
  /\ req[1].allFiles[4].path = TreeNested[1].entries[3].path

\* C7: when the listing of a subdirectory fails, the walk still finishes,
\* without an error payload, and returns what it would return were every
\* directory whose listing failed empty: the files of its siblings, before
\* and after it, in their order.
C7_FailedSubdirIsEmpty ==
  \A r \in Requests :
    (req[r].pc = "done" /\ Walks(r) /\ FailingSubdirs # { })
      => /\ req[r].walked
         /\ IsPreOrderWalk(req[r].allFiles, remote.tree, remote.failing)
         /\ req[r].result.outcome = "return"
         /\ req[r].tool = "get-repo-structure"
              => req[r].result = StructurePayload(req[r].args,
                                                  req[r].allFiles)

\* A finished walk in which the listing of a subdirectory failed after it
\* was asked for, with a file before it and a file after it in the result.
C7_Witness ==
  /\ req[1].pc = "done"
  /\ req[1].walked
  /\ \E d \in FailingSubdirs :
       /\ \E i \in 1..Len(log[1]) :
            log[1][i].op = "list" /\ log[1][i].path = d
       /\ \E i, j \in 1..Len(req[1].allFiles) :
            /\ Precedes(Position(remote.tree, req[1].allFiles[i].path),
                        Position(remote.tree, d))
            /\ Precedes(Position(remote.tree, d),
                        Position(remote.tree, req[1].allFiles[j].path))

\* ------------------------------------------------------------------------
\* The selection of get-repo-context

\* The request has walked and selected: filteredFiles is set.
Selected(r) == req[r].tool = "get-repo-context" /\ req[r].walked

EndsWith(s, suffix) ==
  Len(suffix) <= Len(s)
  /\ SubSeq(s, Len(s) - Len(suffix) + 1, Len(s)) = suffix

HasDot(path) == \E i \in 1..Len(path) : path[i] = "."

\* sub is a run of consecutive characters of s.
IsSubstring(sub, s) ==
  \E i, j \in 0..Len(s) : i <= j /\ SubSeq(s, i + 1, j) = sub

\* C2: with a non-empty fileExtensions, every retained file has a path that
\* ends in "." and a listed extension, and a path without a dot is never
\* retained.
C2_RetainedHaveExtension ==
  \A r \in Requests :
    (Selected(r) /\ Len(fileExtensionsOf(req[r].args)) > 0)
      => \A i \in 1..Len(req[r].filteredFiles) :
           LET path == req[r].filteredFiles[i].path
               exts == fileExtensionsOf(req[r].args)
           IN  /\ HasDot(path)
               /\ \E n \in 1..Len(exts) :
                    EndsWith(path, << "." >> \o exts[n])

\* The content a get-file-content request asks for, as the remote holds it:
\* present when the call succeeds with a base64 blob, absent otherwise.
Fetched(r) == getFileContent(RemoteGetContent(remote, req[r].args.path)).value

\* C3: get-file-content returns the "Could not retrieve content" text when
\* the content is absent and, whenever the content is present, that content
\* in the fenced "File: <path>" block; it never raises.
C3_FileContentPayload ==
  \A r \in Requests :
    (req[r].pc = "done" /\ req[r].tool = "get-file-content")
      => LET args == req[r].args
         IN  /\ req[r].result.outcome = "return"
             /\ req[r].result.type = "text"
             /\ req[r].result.text =
                  IF Fetched(r) = Null
                  THEN T_CouldNot \o args.path \o T_In \o args.owner
                       \o << "/" >> \o args.repo
                  ELSE T_File \o args.path
                       \o << "\n", "\n", Grave, Grave, Grave, "\n" >>
                       \o Fetched(r) \o << "\n", Grave, Grave, Grave >>

\* The files that pass the exclude-path and extension filters, in the order
\* of the walk.
Survivors(r) ==
  FilterFiles(req[r].allFiles, fileExtensionsOf(req[r].args),
              excludePathsOf(req[r].args))

\* C4: for an integer maxFiles = N >= 0 the selected files are at most N and
\* are the first N survivors of the filters (all of them if fewer), in the
\* order of the walk: the filters run before the truncation.
C4_FirstNSurvivors ==
  \A r \in Requests :
    (Selected(r) /\ maxFilesOf(req[r].args) >= 0)
      => LET N == maxFilesOf(req[r].args)
             selected == req[r].filteredFiles
         IN  /\ Len(selected) <= N
             /\ Len(selected) =
                  IF Len(Survivors(r)) < N THEN Len(Survivors(r)) ELSE N
             /\ \A i \in 1..Len(selected) : selected[i] = Survivors(r)[i]

\* An explicit maxFiles cuts the survivors short, and a file the filters
\* dropped stood before the last selected file in the walk.
C4_Witness ==
  /\ Selected(1)
  /\ "maxFiles" \in req[1].args.given
  /\ req[1].args.maxFiles = 2
  /\ Len(req[1].filteredFiles) = 2
  /\ Len(Survivors(1)) > 2
  /\ req[1].filteredFiles[2] # req[1].allFiles[2]

\* The paths of the content calls a request has issued.
FetchedPaths(r) ==
  { log[r][i].path : i \in { n \in 1..Len(log[r]) : log[r][n].op = "content" } }

\* sub stands in s at some offset.
Occurs(sub, s) ==
  \E i \in 1..(Len(s) - Len(sub) + 1) :
    \A k \in 1..Len(sub) : s[i + k - 1] = sub[k]

\* The paths with a block in the rendered text.
RenderedPaths(r) ==
  { p \in PathsIn(req[r].allFiles) :
      Occurs(<< "F", "i", "l", "e", ":", " " >> \o p \o << "\n" >>,
             req[r].result.text) }

\* C5: no file whose path holds an excludePaths entry as a substring,
\* anywhere in the path, is selected, fetched or rendered.
C5_ExcludedNeverSelected ==
  \A r \in Requests :
    Selected(r)
      => \A p \in PathsIn(req[r].filteredFiles) \cup FetchedPaths(r)
                  \cup PathsIn(fileContents[r]) \cup RenderedPaths(r) :
           \A n \in 1..Len(excludePathsOf(req[r].args)) :
             ~ IsSubstring(excludePathsOf(req[r].args)[n], p)

\* A finished request that walked a file whose path holds an exclude path
\* inside a name, and rendered another file.
C5_Witness ==
  /\ Selected(1)
  /\ req[1].pc = "done"
  /\ RenderedPaths(1) # { }
  /\ \E p \in PathsIn(req[1].allFiles) :
       \E n \in 1..Len(excludePathsOf(req[1].args)) :
         LET x == excludePathsOf(req[1].args)[n]
         IN  /\ IsSubstring(x, p)
             /\ ~ \E seg \in { Split(p, "/")[i] : i \in 1..Len(Split(p, "/")) } :
                    seg = x

\* ------------------------------------------------------------------------
\* get-repo-structure

\* a <= b by code units: a is a prefix of b, or they part at some character
\* and a has the smaller one there.
CodeUnitLeq(a, b) ==
  \/ (Len(a) <= Len(b) /\ SubSeq(b, 1, Len(a)) = a)
  \/ \E k \in 1..Len(a) :
       /\ k <= Len(b)
       /\ SubSeq(a, 1, k - 1) = SubSeq(b, 1, k - 1)
       /\ Code(a[k]) < Code(b[k])

StructureHeader(args) ==
  T_Structure \o args.owner \o << "/" >> \o args.repo \o << ":", "\n", "\n" >>

\* C6: get-repo-structure filters nothing, truncates nothing and fetches no
\* content: after the header its payload is the paths of the walk, every
\* one of them (those under node_modules, dist and build too), one per
\* line, in ascending code-unit order.
C6_StructureListsEveryPath ==
  \A r \in Requests :
    (req[r].pc = "done" /\ req[r].tool = "get-repo-structure")
      => LET text == req[r].result.text
             head == StructureHeader(req[r].args)
             body == SubSeq(text, Len(head) + 1, Len(text))
             lines == IF body = << >> THEN << >> ELSE Split(body, "\n")
             walk == getAllFiles(remote, << >>)
         IN  /\ req[r].result.outcome = "return"
             /\ req[r].result.type = "text"
             /\ SubSeq(text, 1, Len(head)) = head
             /\ Len(lines) = Len(walk)
             /\ { lines[i] : i \in 1..Len(lines) } = PathsIn(walk)
             /\ \A i, j \in 1..Len(lines) :
                  i < j => CodeUnitLeq(lines[i], lines[j])
             /\ \A i \in 1..Len(log[r]) : log[r][i].op = "list"

\* A structure payload whose order is not the order of the walk, and which
\* lists a path that the default exclude paths of get-repo-context drop.
C6_Witness ==
  /\ req[1].pc = "done"
  /\ req[1].tool = "get-repo-structure"
  /\ Len(req[1].allFiles) >= 3
  /\ \E i, j \in 1..Len(req[1].allFiles) :
       /\ i < j
       /\ ~ CodeUnitLeq(req[1].allFiles[i].path, req[1].allFiles[j].path)
  /\ \E i \in 1..Len(req[1].allFiles) :
       /\ Excluded(req[1].allFiles[i].path, DefaultExcludePaths)
       /\ Includes(req[1].result.text, req[1].allFiles[i].path)

\* ------------------------------------------------------------------------
\* Errors

HasPrefix(s, prefix) ==
  Len(prefix) <= Len(s) /\ SubSeq(s, 1, Len(prefix)) = prefix

\* C8: a handler ends with a returned text payload whatever is thrown in
\* its pipeline, never with a raised error; and a handler that has not
\* ended is awaiting a remote call, whose answer resumes it.
C8_AlwaysTextPayload ==
  \A r \in Requests :
    /\ req[r].pc = "done"
         => req[r].result.outcome = "return" /\ req[r].result.type = "text"
    /\ req[r].pc # "done" => req[r].result = NoResult
    /\ InFlight(r) => CallsOf(r) # { }

\* A get-repo-context handler that ended in its catch block, in the middle
\* of its fetch loop.
C8_Witness ==
  /\ req[1].pc = "done"
  /\ req[1].tool = "get-repo-context"
  /\ req[1].walked
  /\ req[1].k = 2
  /\ HasPrefix(req[1].result.text, T_ContextError)

\* ------------------------------------------------------------------------
\* One request: the order of its remote calls

ContentCallsIn(calls) ==
  { n \in 1..Len(calls) : calls[n].op = "content" }

\* C9: a get-repo-context request has at most one remote call outstanding;
\* every call but the last it issued is answered; it issues no content
\* call before the walk has finished and no listing call after; and its
\* content calls are for the selected files, in their order, each issued
\* when the one before it is answered.
C9_CallsAreSequential ==
  \A r \in Requests :
    req[r].tool = "get-repo-context"
      => LET calls == log[r]
             first == Len(calls) - Cardinality(ContentCallsIn(calls))
         IN  /\ Cardinality(CallsOf(r)) <= 1
             /\ \A c \in CallsOf(r) :
                  /\ Len(calls) > 0
                  /\ c.op = calls[Len(calls)].op
                  /\ c.path = calls[Len(calls)].path
             /\ \A n \in ContentCallsIn(calls) :
                  /\ n > first
                  /\ req[r].walked
                  /\ n - first <= Len(req[r].filteredFiles)
                  /\ calls[n].path = req[r].filteredFiles[n - first].path
                  /\ n - first <= Len(fileContents[r]) + 1
             /\ req[r].walked
                  => { calls[n].path : n \in 1..first } =
                       ListedDirs(remote.tree, remote.failing, { << >> })

\* A request that has listed two directories and then fetched two files.
C9_Witness ==
  /\ req[1].tool = "get-repo-context"
  /\ req[1].pc = "done"
  /\ Len(log[1]) >= 4
  /\ log[1][2].op = "list"
  /\ log[1][Len(log[1]) - 1].op = "content"
  /\ log[1][Len(log[1])].op = "content"

\* ------------------------------------------------------------------------
\* Requests in flight together

\* What a handler returns when it runs alone against the remote.
SoloFileContents(rem, files) ==
  [i \in 1..Len(files) |->
     [path |-> files[i].path,
      content |-> getFileContent(RemoteGetContent(rem, files[i].path)).value]]

SoloResult(rem, tool, args) ==
  IF tool = "get-repo-context"
  THEN ContextPayload(args,
         SoloFileContents(rem, SelectFiles(getAllFiles(rem, << >>), args)))
  ELSE IF tool = "get-repo-structure"
  THEN StructurePayload(args, getAllFiles(rem, << >>))
  ELSE FileContentPayload(args,
         getFileContent(RemoteGetContent(rem, args.path)).value)

\* C10: however the resumptions of the requests in flight interleave, each
\* request returns the payload it would return if it ran alone against the
\* same remote.
C10_RequestsAreIsolated ==
  \A r \in Requests :
    req[r].pc = "done"
      => req[r].result = SoloResult(remote, req[r].tool, req[r].args)

\* Two get-repo-context requests that each resumed while the other was in
\* flight, and both fetched files.
C10_Witness ==
  /\ \A r \in { 1, 2 } :
       /\ req[r].pc = "done"
       /\ req[r].tool = "get-repo-context"
       /\ req[r].overlapped
       /\ Len(fileContents[r]) >= 1
  /\ req[1].args # req[2].args

====
